---- MODULE Spec2Model ----
(***************************************************************************)
(* Behavior-based Scribbler controller (Segal-Gould_HW_1.py): two          *)
(* behaviors, Avoid and Wander, under the fixed-priority arbitration of    *)
(* Controller.arbitrate, inside the timed loop of Controller.run.          *)
(*                                                                         *)
(* Speeds, durations and the random speed change are in tenths (1.0 is     *)
(* 10); obstacle intensities, pixel counts and image columns are the       *)
(* integers the sensors return.                                            *)
(***************************************************************************)
EXTENDS Integers, Sequences, FiniteSets, TLC

VARIABLES
    pc,            \* position of the controller: see PcValues
    idx,           \* index into self.behaviors of the behavior arbitrate is at
    avoidState,    \* Avoid.state
    wanderState,   \* Wander.state
    lspeed,        \* Wander.lspeed, tenths
    rspeed,        \* Wander.rspeed, tenths
    PYLON_POS,     \* Wander.PYLON_POS
    prevPylonPos,  \* local of Wander.run: <<>> out of scope, <<v>> in scope
    obs,           \* the inputs of the most recent step that read any: sensors, random()
    trace,         \* calls and actuator commands of the current tick, in order
    err,           \* the sensor read that raised, "none" if none did
    streak,        \* history: signed length of the current run of same-side confident detections
    streakBase,    \* history: PYLON_POS when that run began
    streakTones    \* history: tones emitted since that run began

vars == <<pc, idx, avoidState, wanderState, lspeed, rspeed, PYLON_POS,
          prevPylonPos, obs, trace, err, streak, streakBase, streakTones>>

----------------------------------------------------------------------------
(* Bounds of the model *)

\* PYLON_POS is kept within -MaxPylon..MaxPylon
MaxPylon == 3

----------------------------------------------------------------------------
(* Constants of the program *)

NO_ACTION == 0
TURN_LEFT == 1
TURN_RIGHT == 2
WANDER == 1
BACKUP_SPEED == 5
BACKUP_DUR == 5
obstacleThresh == 2500
turnspeed == 5
turndur == 6
OBSTACLE_THRESH == 1500
MAX_SPEED == 10
MIN_SPEED == 1
DSPEED_MAX == 1
IMG_WIDTH == 427

\* self.behaviors: the order is the priority
behaviors == <<"Avoid", "Wander">>

----------------------------------------------------------------------------
(* Values the environment can return *)

\* getObstacle, getBlob and the blob's column, in the whole controller
Intensities == {0, 3000}
PixelCounts == {50, 151}
Columns == {100, IMG_WIDTH \div 2, 300}
\* the same, around every threshold, for a single call of arbitrate
TickIntensities == {0, 100, 1500, 2500, 2501, 3000}
TickPixelCounts == {0, 10, 50, 51, 150, 151, 200}
TickColumns == {0, 212, 213, 214, 426}
\* getStall
StallValues == {0, 1}
\* (2 * random() - 1) * DSPEED_MAX
Deltas == (0 - DSPEED_MAX)..DSPEED_MAX

\* no input read yet in this step
NoObs == [src |-> "none", L |-> 0, C |-> 0, R |-> 0, pxs |-> 0, avg_x |-> 0,
          stalls |-> <<>>, dl |-> 0, dr |-> 0]

Ev(op, arg) == [op |-> op, arg |-> arg]

Abs(x) == IF x < 0 THEN 0 - x ELSE x
Max2(a, b) == IF a > b THEN a ELSE b
Min2(a, b) == IF a < b THEN a ELSE b
B2N(b) == IF b THEN 1 ELSE 0

Ops(t) == [i \in 1..Len(t) |-> t[i].op]
Count(t, op) == Cardinality({i \in 1..Len(t) : t[i].op = op})

----------------------------------------------------------------------------
(* Avoid *)

\* AvoidCheck with the stall test inside the test of the blob
AvoidCheck_StallNeedsNoBlob(L, C, R, pxs, s1, s2) ==
    IF pxs <= 50 /\ (s1 = 1 \/ L > obstacleThresh \/ C > obstacleThresh)
    THEN [state |-> TURN_RIGHT, ret |-> TRUE, stalls |-> <<s1>>]
    ELSE IF pxs <= 50 /\ (s2 = 1 \/ R > obstacleThresh)
         THEN [state |-> TURN_LEFT, ret |-> TRUE, stalls |-> <<s1, s2>>]
         ELSE [state |-> NO_ACTION, ret |-> FALSE, stalls |-> <<s1, s2>>]

\* AvoidCheck without the test of the blob: any close obstacle is avoided
AvoidCheck_NoBlobTest(L, C, R, pxs, s1, s2) ==
    IF s1 = 1 \/ L > obstacleThresh \/ C > obstacleThresh
    THEN [state |-> TURN_RIGHT, ret |-> TRUE, stalls |-> <<s1>>]
    ELSE IF s2 = 1 \/ R > obstacleThresh
         THEN [state |-> TURN_LEFT, ret |-> TRUE, stalls |-> <<s1, s2>>]
         ELSE [state |-> NO_ACTION, ret |-> FALSE, stalls |-> <<s1, s2>>]

\* AvoidCheck with the intensities compared by >= instead of >
AvoidCheck_Ge(L, C, R, pxs, s1, s2) ==
    IF s1 = 1 \/ (pxs <= 50 /\ (L >= obstacleThresh \/ C >= obstacleThresh))
    THEN [state |-> TURN_RIGHT, ret |-> TRUE, stalls |-> <<s1>>]
    ELSE IF s2 = 1 \/ (pxs <= 50 /\ R >= obstacleThresh)
         THEN [state |-> TURN_LEFT, ret |-> TRUE, stalls |-> <<s1, s2>>]
         ELSE [state |-> NO_ACTION, ret |-> FALSE, stalls |-> <<s1, s2>>]

\* Avoid.check on the readings L, C, R, pxs, with s1 and s2 what the first and
\* the second call of getStall() return; the second call is made only when the
\* first condition is false.
AvoidCheck(L, C, R, pxs, s1, s2) ==
    IF s1 = 1 \/ (pxs <= 50 /\ (L > obstacleThresh \/ C > obstacleThresh))
    THEN [state |-> TURN_RIGHT, ret |-> TRUE, stalls |-> <<s1>>]
    ELSE IF s2 = 1 \/ (pxs <= 50 /\ R > obstacleThresh)
         THEN [state |-> TURN_LEFT, ret |-> TRUE, stalls |-> <<s1, s2>>]
         ELSE [state |-> NO_ACTION, ret |-> FALSE, stalls |-> <<s1, s2>>]

\* AvoidRunCmds with the turn issued before the backup
AvoidRunCmds_TurnFirst(st) ==
    (IF st = TURN_RIGHT THEN <<Ev("turnRight", <<turnspeed, turndur>>)>>
     ELSE IF st = TURN_LEFT THEN <<Ev("turnLeft", <<turnspeed, turndur>>)>>
     ELSE <<>>)
    \o <<Ev("backward", <<BACKUP_SPEED, BACKUP_DUR>>)>>

\* the actuator commands of Avoid.run in state st
AvoidRunCmds(st) ==
    <<Ev("backward", <<BACKUP_SPEED, BACKUP_DUR>>)>> \o
    (IF st = TURN_RIGHT THEN <<Ev("turnRight", <<turnspeed, turndur>>)>>
     ELSE IF st = TURN_LEFT THEN <<Ev("turnLeft", <<turnspeed, turndur>>)>>
     ELSE <<>>)

----------------------------------------------------------------------------
(* Wander *)

\* WanderCheck that leaves the state as WANDER when it returns false
WanderCheck_StaleState(L, C, R, pxs) ==
    IF (L + C + R) < 3 * OBSTACLE_THRESH \/ pxs > 150
    THEN [state |-> WANDER, ret |-> TRUE]
    ELSE [state |-> WANDER, ret |-> FALSE]

\* WanderCheck with the mean compared by <= instead of <
WanderCheck_Le(L, C, R, pxs) ==
    IF (L + C + R) <= 3 * OBSTACLE_THRESH \/ pxs > 150
    THEN [state |-> WANDER, ret |-> TRUE]
    ELSE [state |-> NO_ACTION, ret |-> FALSE]

\* Wander.check: (L+C+R)/3.0 < OBSTACLE_THRESH, on integers L+C+R < 3*OBSTACLE_THRESH
WanderCheck(L, C, R, pxs) ==
    IF (L + C + R) < 3 * OBSTACLE_THRESH \/ pxs > 150
    THEN [state |-> WANDER, ret |-> TRUE]
    ELSE [state |-> NO_ACTION, ret |-> FALSE]

\* Perturb without the upper clamp
Perturb_NoMin(speed, d) == Max2(MIN_SPEED, speed + d)

\* max(MIN_SPEED, min(MAX_SPEED, speed + d))
Perturb(speed, d) == Max2(MIN_SPEED, Min2(MAX_SPEED, speed + d))

\* PylonDelta with the threshold of Avoid.check, 50, for that of the blob
PylonDelta_LowThreshold(pxs, avg_x) ==
    IF pxs > 50
    THEN (IF avg_x < IMG_WIDTH \div 2 THEN 0 - 1 ELSE 0)
         + (IF avg_x > IMG_WIDTH \div 2 THEN 1 ELSE 0)
    ELSE 0

\* PylonDelta with the column compared to the width, not to its half
PylonDelta_FullWidth(pxs, avg_x) ==
    IF pxs > 150
    THEN (IF avg_x < IMG_WIDTH THEN 0 - 1 ELSE 0)
         + (IF avg_x > IMG_WIDTH THEN 1 ELSE 0)
    ELSE 0

\* the change setPylonPos makes to PYLON_POS on the blob (pxs, avg_x)
PylonDelta(pxs, avg_x) ==
    IF pxs > 150
    THEN (IF avg_x < IMG_WIDTH \div 2 THEN 0 - 1 ELSE 0)
         + (IF avg_x > IMG_WIDTH \div 2 THEN 1 ELSE 0)
    ELSE 0

\* PylonBeeps with the beep on every confident blob, whatever its column
PylonBeeps_AnyConfident(pxs, avg_x) == IF pxs > 150 THEN 1 ELSE 0

\* the number of beeps setPylonPos emits on the blob (pxs, avg_x)
PylonBeeps(pxs, avg_x) ==
    IF pxs > 150
    THEN (IF avg_x < IMG_WIDTH \div 2 THEN 1 ELSE 0)
         + (IF avg_x > IMG_WIDTH \div 2 THEN 1 ELSE 0)
    ELSE 0

\* what one call of setPylonPos appends to the trace
PylonEvents(pxs, avg_x) ==
    <<Ev("setPylonPos", <<>>)>>
    \o [i \in 1..PylonBeeps(pxs, avg_x) |-> Ev("beep", <<5, 147998>>)]

\* MotorsCmd with the margin of 2 left out of both comparisons
MotorsCmd_NoMargin(pos, prev, l, r) ==
    IF pos < prev THEN Ev("motors", <<0 - Abs(l), Abs(r)>>)
    ELSE IF pos > prev THEN Ev("motors", <<Abs(l), 0 - Abs(r)>>)
    ELSE Ev("motors", <<l, r>>)

\* the motors command of Wander.run
MotorsCmd(pos, prev, l, r) ==
    IF pos < prev - 2 THEN Ev("motors", <<0 - Abs(l), Abs(r)>>)
    ELSE IF pos > prev + 2 THEN Ev("motors", <<Abs(l), 0 - Abs(r)>>)
    ELSE Ev("motors", <<l, r>>)

----------------------------------------------------------------------------
(* Controller *)

PcValues == {"start", "check", "run", "setPylon1", "motors", "setPylon2",
             "timer", "done", "crashed", "bearing"}

\* the objects as Controller.__init__ leaves them
Constructed ==
    /\ idx = 1
    /\ avoidState = NO_ACTION
    /\ wanderState = NO_ACTION
    /\ lspeed = MAX_SPEED
    /\ rspeed = MAX_SPEED
    /\ PYLON_POS = 0
    /\ prevPylonPos = <<>>
    /\ obs = NoObs
    /\ trace = <<>>
    /\ err = "none"
    /\ streak = 0
    /\ streakBase = 0
    /\ streakTones = 0

Init ==
    /\ pc = "start"
    /\ Constructed

\* AfterCheck with the test of wantToRun inverted
AfterCheck_Inverted(i, ret) ==
    IF ~ret THEN [pc |-> "run", idx |-> i]
    ELSE IF i < Len(behaviors) THEN [pc |-> "check", idx |-> i + 1]
    ELSE [pc |-> "timer", idx |-> 1]

\* AfterCheck with wantToRun not tested: the behavior runs whatever it returned
AfterCheck_AlwaysRun(i, ret) == [pc |-> "run", idx |-> i]

\* where arbitrate goes after behaviors[i].check() returned ret
AfterCheck(i, ret) ==
    IF ret THEN [pc |-> "run", idx |-> i]
    ELSE IF i < Len(behaviors) THEN [pc |-> "check", idx |-> i + 1]
    ELSE [pc |-> "timer", idx |-> 1]

\* AfterRun without the return: the loop goes on to the next behavior
AfterRun_Continue(i) ==
    IF i < Len(behaviors) THEN [pc |-> "check", idx |-> i + 1]
    ELSE [pc |-> "timer", idx |-> 1]

\* where arbitrate goes after behaviors[i].run() returned: it returns
AfterRun(i) == [pc |-> "timer", idx |-> 1]

\* Controller.run up to the first tick of the timer
RunStart ==
    /\ pc = "start"
    /\ pc' = "check"
    /\ idx' = 1
    /\ trace' = <<>>
    /\ UNCHANGED <<avoidState, wanderState, lspeed, rspeed, PYLON_POS,
                   prevPylonPos, obs, err, streak, streakBase, streakTones>>

\* the timer yields once more: the next call of arbitrate begins
TimerYield ==
    /\ pc = "timer"
    /\ pc' = "check"
    /\ idx' = 1
    /\ trace' = <<>>
    /\ obs' = NoObs
    /\ UNCHANGED <<avoidState, wanderState, lspeed, rspeed, PYLON_POS,
                   prevPylonPos, err, streak, streakBase, streakTones>>

\* the timer is exhausted: the loop is left and stop() is called
TimerExpire ==
    /\ pc = "timer"
    /\ pc' = "done"
    /\ trace' = Append(trace, Ev("stop", <<>>))
    /\ UNCHANGED <<idx, avoidState, wanderState, lspeed, rspeed, PYLON_POS,
                   prevPylonPos, obs, err, streak, streakBase, streakTones>>

\* arbitrate calls Avoid.check, with readings from I and P, and acts on what
\* it returns
AvoidCheckOn(I, P) ==
    /\ pc = "check"
    /\ behaviors[idx] = "Avoid"
    /\ \E L \in I, C \in I, R \in I, pxs \in P,
          s1 \in StallValues, s2 \in StallValues :
         LET res == AvoidCheck(L, C, R, pxs, s1, s2)
             nxt == AfterCheck(idx, res.ret)
         IN /\ Len(res.stalls) = 1 => s2 = 0
            /\ avoidState' = res.state
            /\ obs' = [NoObs EXCEPT !.src = "Avoid", !.L = L, !.C = C, !.R = R,
                                    !.pxs = pxs, !.stalls = res.stalls]
            /\ trace' = Append(trace, Ev("Avoid.check", <<B2N(res.ret)>>))
            /\ pc' = nxt.pc
            /\ idx' = nxt.idx
    /\ UNCHANGED <<wanderState, lspeed, rspeed, PYLON_POS, prevPylonPos, err,
                   streak, streakBase, streakTones>>

AvoidCheckStep == AvoidCheckOn(Intensities, PixelCounts)

\* AvoidRunStep that also puts the speeds of Wander back to MAX_SPEED
AvoidRunStep_ResetsSpeeds ==
    /\ pc = "run"
    /\ behaviors[idx] = "Avoid"
    /\ trace' = trace \o <<Ev("Avoid.run", <<>>)>> \o AvoidRunCmds(avoidState)
    /\ lspeed' = MAX_SPEED
    /\ rspeed' = MAX_SPEED
    /\ pc' = AfterRun(idx).pc
    /\ idx' = AfterRun(idx).idx
    /\ UNCHANGED <<avoidState, wanderState, PYLON_POS,
                   prevPylonPos, obs, err, streak, streakBase, streakTones>>

\* arbitrate calls Avoid.run, and returns
AvoidRunStep ==
    /\ pc = "run"
    /\ behaviors[idx] = "Avoid"
    /\ trace' = trace \o <<Ev("Avoid.run", <<>>)>> \o AvoidRunCmds(avoidState)
    /\ pc' = AfterRun(idx).pc
    /\ idx' = AfterRun(idx).idx
    /\ UNCHANGED <<avoidState, wanderState, lspeed, rspeed, PYLON_POS,
                   prevPylonPos, obs, err, streak, streakBase, streakTones>>

\* WanderCheckOn with the pylon tracked in the check as well: a confident blob
\* beeps and moves PYLON_POS
WanderCheckOn_Tracks(I, P) ==
    /\ pc = "check"
    /\ behaviors[idx] = "Wander"
    /\ \E L \in I, C \in I, R \in I, pxs \in P :
         LET res == WanderCheck(L, C, R, pxs)
             nxt == AfterCheck(idx, res.ret)
             d   == IF pxs > 150 /\ PYLON_POS < MaxPylon THEN 1 ELSE 0
         IN /\ wanderState' = res.state
            /\ PYLON_POS' = PYLON_POS + d
            /\ obs' = [NoObs EXCEPT !.src = "Wander", !.L = L, !.C = C, !.R = R,
                                    !.pxs = pxs]
            /\ trace' = trace \o [i \in 1..d |-> Ev("beep", <<5, 147998>>)]
                        \o <<Ev("Wander.check", <<B2N(res.ret)>>)>>
            /\ pc' = nxt.pc
            /\ idx' = nxt.idx
    /\ UNCHANGED <<avoidState, lspeed, rspeed, prevPylonPos, err,
                   streak, streakBase, streakTones>>

\* arbitrate calls Wander.check, with readings from I and P, and acts on what
\* it returns
WanderCheckOn(I, P) ==
    /\ pc = "check"
    /\ behaviors[idx] = "Wander"
    /\ \E L \in I, C \in I, R \in I, pxs \in P :
         LET res == WanderCheck(L, C, R, pxs)
             nxt == AfterCheck(idx, res.ret)
         IN /\ wanderState' = res.state
            /\ obs' = [NoObs EXCEPT !.src = "Wander", !.L = L, !.C = C, !.R = R,
                                    !.pxs = pxs]
            /\ trace' = Append(trace, Ev("Wander.check", <<B2N(res.ret)>>))
            /\ pc' = nxt.pc
            /\ idx' = nxt.idx
    /\ UNCHANGED <<avoidState, lspeed, rspeed, PYLON_POS, prevPylonPos, err,
                   streak, streakBase, streakTones>>

WanderCheckStep == WanderCheckOn(Intensities, PixelCounts)

\* WanderRunStep comparing against the class default of PYLON_POS, 0, instead
\* of the value captured in this run
WanderRunStep_StalePrev ==
    /\ pc = "run"
    /\ behaviors[idx] = "Wander"
    /\ \E dl \in Deltas, dr \in Deltas :
         /\ lspeed' = Perturb(lspeed, dl)
         /\ rspeed' = Perturb(rspeed, dr)
         /\ obs' = [NoObs EXCEPT !.src = "random", !.dl = dl, !.dr = dr]
    /\ prevPylonPos' = <<0>>
    /\ trace' = Append(trace, Ev("Wander.run", <<>>))
    /\ pc' = "setPylon1"
    /\ UNCHANGED <<idx, avoidState, wanderState, PYLON_POS, err,
                   streak, streakBase, streakTones>>

\* Wander.run up to its first call of setPylonPos: the speeds change and
\* PYLON_POS is captured
WanderRunStep ==
    /\ pc = "run"
    /\ behaviors[idx] = "Wander"
    /\ \E dl \in Deltas, dr \in Deltas :
         /\ lspeed' = Perturb(lspeed, dl)
         /\ rspeed' = Perturb(rspeed, dr)
         /\ obs' = [NoObs EXCEPT !.src = "random", !.dl = dl, !.dr = dr]
    /\ prevPylonPos' = <<PYLON_POS>>
    /\ trace' = Append(trace, Ev("Wander.run", <<>>))
    /\ pc' = "setPylon1"
    /\ UNCHANGED <<idx, avoidState, wanderState, PYLON_POS, err,
                   streak, streakBase, streakTones>>

\* setPylonPos on the blob (pxs, avg_x)
SetPylonPosOf(pxs, avg_x) ==
    /\ PYLON_POS + PylonDelta(pxs, avg_x) \in (0 - MaxPylon)..MaxPylon
    /\ PYLON_POS' = PYLON_POS + PylonDelta(pxs, avg_x)
    /\ obs' = [NoObs EXCEPT !.src = "setPylonPos", !.pxs = pxs, !.avg_x = avg_x]

\* one call of setPylonPos with a blob from P and X, the first or the second
\* of Wander.run; after the second, Wander.run and arbitrate return
SetPylonPosOn(P, X) ==
    /\ pc \in {"setPylon1", "setPylon2"}
    /\ \E pxs \in P, avg_x \in X :
         /\ SetPylonPosOf(pxs, avg_x)
         /\ trace' = trace \o PylonEvents(pxs, avg_x)
    /\ IF pc = "setPylon1"
       THEN /\ pc' = "motors"
            /\ UNCHANGED <<idx, prevPylonPos>>
       ELSE /\ pc' = AfterRun(idx).pc
            /\ idx' = AfterRun(idx).idx
            /\ prevPylonPos' = <<>>
    /\ UNCHANGED <<avoidState, wanderState, lspeed, rspeed, err,
                   streak, streakBase, streakTones>>

SetPylonPos == SetPylonPosOn(PixelCounts, Columns)

\* the motors command of Wander.run, between the two calls of setPylonPos
WanderMotors ==
    /\ pc = "motors"
    /\ trace' = Append(trace, MotorsCmd(PYLON_POS, prevPylonPos[1], lspeed, rspeed))
    /\ pc' = "setPylon2"
    /\ UNCHANGED <<idx, avoidState, wanderState, lspeed, rspeed, PYLON_POS,
                   prevPylonPos, obs, err, streak, streakBase, streakTones>>

\* the sensor reads of the step at pc
SensorReads ==
    IF pc = "check"
    THEN (IF behaviors[idx] = "Avoid" THEN {"getObstacle", "getBlob", "getStall"}
          ELSE {"getObstacle", "getBlob"})
    ELSE IF pc \in {"setPylon1", "setPylon2"} THEN {"getBlob"}
    ELSE {}

\* a sensor read raises inside check or setPylonPos: nothing catches it, the
\* exception leaves arbitrate and Controller.run, and stop() is not reached
SensorFail ==
    /\ \E e \in SensorReads : err' = e
    /\ pc' = "crashed"
    /\ UNCHANGED <<idx, avoidState, wanderState, lspeed, rspeed, PYLON_POS,
                   prevPylonPos, obs, trace, streak, streakBase, streakTones>>

Next ==
    \/ RunStart
    \/ TimerYield
    \/ TimerExpire
    \/ AvoidCheckStep
    \/ AvoidRunStep
    \/ WanderCheckStep
    \/ WanderRunStep
    \/ SetPylonPos
    \/ WanderMotors
    \/ SensorFail

Spec == Init /\ [][Next]_vars

----------------------------------------------------------------------------
(* One call of Controller.arbitrate on the constructed objects, with readings *)
(* around every threshold                                                     *)

TickAvoidCheck == AvoidCheckOn(TickIntensities, TickPixelCounts)
TickWanderCheck == WanderCheckOn(TickIntensities, TickPixelCounts)
TickSetPylonPos == SetPylonPosOn(TickPixelCounts, TickColumns)

NextTick ==
    \/ RunStart
    \/ TickAvoidCheck
    \/ AvoidRunStep
    \/ TickWanderCheck
    \/ WanderRunStep
    \/ TickSetPylonPos
    \/ WanderMotors
    \/ SensorFail

SpecTick == Init /\ [][NextTick]_vars

----------------------------------------------------------------------------
(* setPylonPos called again and again on any sequence of blobs *)

\* the side of the frame a blob is seen on: -1 a confident blob left of the
\* middle column, 1 a confident blob right of it, 0 anything else
BlobSide(pxs, avg_x) ==
    IF pxs > 150 /\ avg_x < 213 THEN 0 - 1
    ELSE IF pxs > 150 /\ avg_x > 213 THEN 1
    ELSE 0

\* the history of the run of same-side confident detections after one more
\* invocation, made with PYLON_POS at pos, on a blob seen on side sd, that
\* emitted n tones
StreakAfter(pos, sd, n) ==
    IF sd # 0 /\ streak * sd > 0
    THEN [streak |-> streak + sd, base |-> streakBase, tones |-> streakTones + n]
    ELSE [streak |-> sd, base |-> pos, tones |-> n]

InitBearing ==
    /\ pc = "bearing"
    /\ Constructed

BearingStep ==
    /\ pc = "bearing"
    /\ \E pxs \in TickPixelCounts, avg_x \in TickColumns :
         LET s == StreakAfter(PYLON_POS, BlobSide(pxs, avg_x), PylonBeeps(pxs, avg_x))
         IN /\ SetPylonPosOf(pxs, avg_x)
            /\ trace' = PylonEvents(pxs, avg_x)
            /\ streak' = s.streak
            /\ streakBase' = s.base
            /\ streakTones' = s.tones
    /\ UNCHANGED <<pc, idx, avoidState, wanderState, lspeed, rspeed,
                   prevPylonPos, err>>

NextBearing == BearingStep

SpecBearing == InitBearing /\ [][NextBearing]_vars

----------------------------------------------------------------------------

(* Properties *)

Has(op) == \E i \in 1..Len(trace) : trace[i].op = op
\* the check of behavior b returned true in this tick
Wanted(b) == \E i \in 1..Len(trace) : trace[i] = Ev(b \o ".check", <<1>>)
\* the check of behavior b returned false in this tick
Declined(b) == \E i \in 1..Len(trace) : trace[i] = Ev(b \o ".check", <<0>>)
Runs == Count(trace, "Avoid.run") + Count(trace, "Wander.run")
\* arbitrate has returned
TickOver == pc \in {"timer", "done"}
\* obs holds the readings of Avoid.check, some getStall() among them returned 1
Stalled == obs.src = "Avoid" /\ \E i \in 1..Len(obs.stalls) : obs.stalls[i] = 1
\* obs holds the readings of Avoid.check, every getStall() among them returned 0
NotStalled == obs.src = "Avoid" /\ \A i \in 1..Len(obs.stalls) : obs.stalls[i] = 0

\* C1: priority exclusivity. In every tick, once Avoid.check has returned true
\* neither Wander.check nor Wander.run is executed, Avoid.run is the one run
\* of the tick, and no tick has both Avoid.run and Wander.run.
C1_PriorityExclusivity ==
    /\ ~(Has("Avoid.run") /\ Has("Wander.run"))
    /\ Wanted("Avoid") =>
         /\ ~Has("Wander.check")
         /\ ~Has("Wander.run")
         /\ TickOver => Count(trace, "Avoid.run") = 1

\* a tick has ended in which Avoid ran on readings on which Wander.check
\* returns true as well
C1_Witness ==
    /\ pc = "timer"
    /\ Wanted("Avoid")
    /\ Has("Avoid.run")
    /\ obs.src = "Avoid"
    /\ (obs.L + obs.C + obs.R) \div 3 < 1500

\* C2: whenever a stall is read in Avoid.check, whatever the intensities and
\* the pixel count, the check returns true and the arbiter runs Avoid.run and
\* neither checks nor runs Wander in that tick.
C2_StallAlwaysAvoids ==
    Stalled =>
      /\ avoidState # NO_ACTION
      /\ trace[1] = Ev("Avoid.check", <<1>>)
      /\ ~Has("Wander.check")
      /\ ~Has("Wander.run")
      /\ pc \in {"run", "timer"}
      /\ pc = "run" => behaviors[idx] = "Avoid"
      /\ pc = "timer" => Count(trace, "Avoid.run") = 1

\* a stalled tick has ended with Avoid.run, on readings (a confident blob, low
\* intensities) on which Wander.check returns true
C2_Witness ==
    /\ Stalled
    /\ pc = "timer"
    /\ Has("Avoid.run")
    /\ obs.pxs = 200
    /\ obs.L = 100 /\ obs.C = 100 /\ obs.R = 100

\* C3: the decision table of Avoid.check when no stall is read: TURN_RIGHT and
\* true exactly when pxs <= 50 and (L > 2500 or C > 2500); otherwise TURN_LEFT
\* and true exactly when pxs <= 50 and R > 2500; otherwise NO_ACTION and false.
C3_AvoidDecisionTable ==
    NotStalled =>
      LET lc == obs.pxs <= 50 /\ (obs.L > 2500 \/ obs.C > 2500)
          r  == obs.pxs <= 50 /\ obs.R > 2500
      IN /\ lc => avoidState = TURN_RIGHT /\ Wanted("Avoid")
         /\ (~lc /\ r) => avoidState = TURN_LEFT /\ Wanted("Avoid")
         /\ (~lc /\ ~r) => avoidState = NO_ACTION /\ Declined("Avoid")
         /\ ~(Wanted("Avoid") /\ Declined("Avoid"))

\* scenario B: (0, 0, 3000), 10 pixels, not stalled: TURN_LEFT
C3_Witness ==
    /\ NotStalled
    /\ obs.L = 0 /\ obs.C = 0 /\ obs.R = 3000 /\ obs.pxs = 10
    /\ avoidState = TURN_LEFT
    /\ Wanted("Avoid")

\* C4: every invocation of setPylonPos changes PYLON_POS by -1, 0 or +1, and
\* by 0 when the pixel count it read is <= 150.
C4_UnitSteps ==
    [][ /\ PYLON_POS' - PYLON_POS \in {0 - 1, 0, 1}
        /\ obs'.pxs <= 150 => PYLON_POS' = PYLON_POS ]_vars

\* an invocation that read exactly 150 pixels, after the estimate had moved
C4_Witness ==
    /\ pc = "bearing"
    /\ obs.src = "setPylonPos"
    /\ obs.pxs = 150
    /\ PYLON_POS = 0 - 2

\* the speed x brought back to the nearest bound of [MIN_SPEED, MAX_SPEED]
NearestInRange(x) ==
    IF x > MAX_SPEED THEN MAX_SPEED ELSE IF x < MIN_SPEED THEN MIN_SPEED ELSE x

\* C5: lspeed and rspeed are within [MIN_SPEED, MAX_SPEED] in every state,
\* and every Wander.run moves each to its perturbed value brought back to the
\* nearest bound; nothing else changes them.
C5_SpeedsInRange ==
    /\ [](lspeed \in MIN_SPEED..MAX_SPEED /\ rspeed \in MIN_SPEED..MAX_SPEED)
    /\ [][ IF pc = "run" /\ pc' = "setPylon1"
           THEN /\ lspeed' = NearestInRange(lspeed + obs'.dl)
                /\ rspeed' = NearestInRange(rspeed + obs'.dr)
           ELSE UNCHANGED <<lspeed, rspeed>> ]_vars

\* a Wander.run has just clamped the left speed at the lower bound and the
\* right speed at the upper bound
C5_Witness ==
    /\ pc = "setPylon1"
    /\ obs.src = "random"
    /\ lspeed = MIN_SPEED /\ obs.dl = 0 - 1
    /\ rspeed = MAX_SPEED /\ obs.dr = 1

\* C6: over a run of n consecutive invocations of setPylonPos that each read
\* a confident blob left of the middle column, PYLON_POS has gone down by
\* exactly n and exactly n tones were emitted; the same, up, on the right.
C6_Accumulation ==
    /\ streak < 0 => PYLON_POS = streakBase + streak /\ streakTones = 0 - streak
    /\ streak > 0 => PYLON_POS = streakBase + streak /\ streakTones = streak

\* scenario E: three consecutive confident detections on the left
C6_Witness ==
    /\ pc = "bearing"
    /\ streak = 0 - 3
    /\ streakBase = 0
    /\ PYLON_POS = 0 - 3
    /\ streakTones = 3
    /\ obs.pxs = 200

\* C7: Wander.check returns true with state WANDER exactly when the mean of
\* L, C, R is below 1500 or pxs is above 150, otherwise false with state
\* NO_ACTION; on (100, 100, 100) with 0 pixels and no stall Avoid.check
\* returns false, Wander.check true, and Wander.run is what arbitrate runs.
C7_WanderDecisionTable ==
    /\ obs.src = "Wander" =>
         IF (obs.L + obs.C + obs.R) \div 3 < 1500 \/ obs.pxs > 150
         THEN /\ wanderState = WANDER
              /\ Wanted("Wander")
              /\ pc = "run" /\ behaviors[idx] = "Wander"
         ELSE /\ wanderState = NO_ACTION
              /\ Declined("Wander")
              /\ ~Has("Wander.run")
    /\ (NotStalled /\ obs.L = 100 /\ obs.C = 100 /\ obs.R = 100 /\ obs.pxs = 0) =>
         /\ Declined("Avoid")
         /\ ~Has("Avoid.run")

\* scenario C: Wander.check has returned true on (100, 100, 100), 0 pixels
C7_Witness ==
    /\ obs.src = "Wander"
    /\ obs.L = 100 /\ obs.C = 100 /\ obs.R = 100 /\ obs.pxs = 0
    /\ Declined("Avoid")
    /\ pc = "run" /\ behaviors[idx] = "Wander"

\* C8 as stated: when a call of arbitrate has returned, exactly one of
\* Avoid.run and Wander.run was executed in it.
C8_ExactlyOne == pc = "timer" => Runs = 1

\* C8 amended: in every tick at most one of Avoid.run and Wander.run is
\* executed; when arbitrate has returned, one was executed if some check
\* returned true and none if both returned false.
C8_AtMostOne ==
    /\ Runs <= 1
    /\ pc = "timer" =>
         /\ (Wanted("Avoid") \/ Wanted("Wander")) => Runs = 1
         /\ (Declined("Avoid") /\ Declined("Wander")) => Runs = 0
         /\ Wanted("Avoid") \/ Wanted("Wander") \/ (Declined("Avoid") /\ Declined("Wander"))

\* a tick in which both checks returned false has ended: nothing ran
C8_Witness ==
    /\ pc = "timer"
    /\ Ops(trace) = <<"Avoid.check", "Wander.check">>
    /\ Runs = 0

\* C9: on every path by which Controller.run is left, stop() is the last
\* actuator command issued.
C9_StopOnEveryExit ==
    pc \in {"done", "crashed"} =>
      /\ Len(trace) > 0
      /\ trace[Len(trace)].op = "stop"

\* C10: a sensor read that fails in a check does not leave arbitrate: the
\* controller is not brought down, the loop goes on.
C10_FailureContained == err # "none" => pc # "crashed"

\* the trace of the current tick without the stop() that ends Controller.run
TickTrace == SelectSeq(trace, LAMBDA e : e.op # "stop")

\* C11: every Avoid.run under the arbiter issues exactly two actuator
\* commands, backward(0.5, 0.5) and then the one turn(0.5, 0.6) of the state
\* its check recorded, TURN_RIGHT or TURN_LEFT, never NO_ACTION.
C11_BackupThenTurn ==
    Has("Avoid.run") =>
      /\ avoidState \in {TURN_LEFT, TURN_RIGHT}
      /\ TickTrace = << Ev("Avoid.check", <<1>>),
                        Ev("Avoid.run", <<>>),
                        Ev("backward", <<5, 5>>),
                        Ev(IF avoidState = TURN_RIGHT THEN "turnRight" ELSE "turnLeft",
                           <<5, 6>>) >>

\* an Avoid.run has backed up and turned left
C11_Witness ==
    /\ pc = "timer"
    /\ avoidState = TURN_LEFT
    /\ Ops(trace) = <<"Avoid.check", "Avoid.run", "backward", "turnLeft">>

\* C12: every run in the trace of a tick comes right after the check of the
\* same behavior, which returned true; when a run is about to start, the
\* behavior's state is the one that check set, not NO_ACTION.
C12_CheckThenRun ==
    /\ \A i \in 1..Len(trace) :
         /\ trace[i].op = "Avoid.run" =>
              /\ i > 1
              /\ trace[i - 1] = Ev("Avoid.check", <<1>>)
              /\ avoidState # NO_ACTION
         /\ trace[i].op = "Wander.run" =>
              /\ i > 1
              /\ trace[i - 1] = Ev("Wander.check", <<1>>)
              /\ wanderState = WANDER
    /\ pc = "run" =>
         /\ Len(trace) > 0
         /\ trace[Len(trace)] = Ev(behaviors[idx] \o ".check", <<1>>)
         /\ behaviors[idx] = "Avoid" => avoidState # NO_ACTION
         /\ behaviors[idx] = "Wander" => wanderState = WANDER
    /\ Declined("Avoid") => ~Has("Avoid.run")
    /\ Declined("Wander") => ~Has("Wander.run")

\* Wander.run has started right after its check returned true, Avoid.check
\* having returned false before
C12_Witness ==
    /\ pc = "setPylon1"
    /\ Ops(trace) = <<"Avoid.check", "Wander.check", "Wander.run">>
    /\ trace[2] = Ev("Wander.check", <<1>>)
    /\ wanderState = WANDER

\* C13: whenever a stall is read in Avoid.check the state recorded is
\* TURN_RIGHT, and TURN_LEFT is recorded only when no stall is read,
\* pxs <= 50, R > 2500, L <= 2500 and C <= 2500.
C13_StallTurnsRight ==
    /\ Stalled => avoidState = TURN_RIGHT
    /\ (obs.src = "Avoid" /\ avoidState = TURN_LEFT) =>
         /\ NotStalled
         /\ obs.pxs <= 50
         /\ obs.R > 2500
         /\ obs.L <= 2500
         /\ obs.C <= 2500

\* the motors command the steering rule asks for, with the estimate at pos,
\* prev captured before the first bearing-estimation step, speeds l and r
SteeringRule(pos, prev, l, r) ==
    IF prev - pos > 2 THEN <<0 - Abs(l), Abs(r)>>
    ELSE IF pos - prev > 2 THEN <<Abs(l), 0 - Abs(r)>>
    ELSE <<l, r>>

\* the order of the calls and commands of a Wander.run, tones left out
WanderRunOrder == <<"Wander.run", "setPylonPos", "motors", "setPylonPos">>

\* xs is the beginning of ys
IsPrefix(xs, ys) ==
    /\ Len(xs) <= Len(ys)
    /\ \A i \in 1..Len(xs) : xs[i] = ys[i]

\* C14: the motors command of Wander.run steers left when the estimate is
\* more than 2 below the value captured before the first estimation step,
\* right when it is more than 2 above, and is (lspeed, rspeed) otherwise; one
\* motors command per Wander.run, between the two estimation steps.
C14_SteeringRule ==
    /\ pc = "setPylon2" =>
         trace[Len(trace)] =
           Ev("motors", SteeringRule(PYLON_POS, prevPylonPos[1], lspeed, rspeed))
    /\ Has("Wander.run") =>
         /\ IsPrefix(SelectSeq(Ops(TickTrace),
                               LAMBDA o : o \notin {"beep", "Avoid.check", "Wander.check"}),
                     WanderRunOrder)
         /\ Count(trace, "motors") <= 1
         /\ TickOver => Count(trace, "motors") = 1

\* the motors command has just been issued after the first estimation step
\* moved the estimate one unit to the left
C14_Witness ==
    /\ pc = "setPylon2"
    /\ PYLON_POS = prevPylonPos[1] - 1
    /\ lspeed = 9 /\ rspeed = 10
    /\ trace[Len(trace)] = Ev("motors", <<9, 10>>)

\* C15: in a tick where no stall is read and the blob read is confident
\* (pxs > 150), Avoid.check returns false and Wander.check returns true
\* whatever the intensities, and Wander.run is what arbitrate runs.
C15_TargetIsNoObstacle ==
    /\ (NotStalled /\ obs.pxs > 150) =>
         /\ avoidState = NO_ACTION
         /\ Declined("Avoid")
         /\ ~Has("Avoid.run")
    /\ (obs.src = "Wander" /\ obs.pxs > 150) =>
         /\ wanderState = WANDER
         /\ Wanted("Wander")
         /\ pc = "run" /\ behaviors[idx] = "Wander"
    /\ (pc = "timer" /\ Declined("Avoid") /\ Wanted("Wander")) => Has("Wander.run")

\* Wander is about to run on a confident blob with every intensity at 3000
C15_Witness ==
    /\ obs.src = "Wander"
    /\ obs.pxs = 200
    /\ obs.L = 3000 /\ obs.C = 3000 /\ obs.R = 3000
    /\ Declined("Avoid")
    /\ pc = "run"

\* C16: a tick in which both checks returned false ends with no actuator
\* command, Wander.check evaluated after Avoid.check, both states NO_ACTION;
\* its steps leave PYLON_POS and the speeds alone; the readings of the
\* example, (2500, 2500, 0) with 100 pixels and no stall, make such a tick.
C16_IdleTick ==
    /\ []((TickOver /\ Declined("Avoid") /\ Declined("Wander")) =>
            /\ TickTrace = <<Ev("Avoid.check", <<0>>), Ev("Wander.check", <<0>>)>>
            /\ avoidState = NO_ACTION
            /\ wanderState = NO_ACTION)
    /\ [][(pc = "check" /\ pc' \in {"check", "timer"}) =>
            UNCHANGED <<PYLON_POS, lspeed, rspeed>>]_vars
    /\ [](~AvoidCheck(2500, 2500, 0, 100, 0, 0).ret /\ ~WanderCheck(2500, 2500, 0, 100).ret)

\* an idle tick has ended, after earlier ticks in which Wander ran
C16_Witness ==
    /\ pc = "timer"
    /\ Declined("Avoid") /\ Declined("Wander")
    /\ Len(trace) = 2
    /\ PYLON_POS = 0 - 2
    /\ lspeed = 8 /\ rspeed = 9
    /\ obs.src = "Wander"

\* C17: a check issues no actuator command and changes nothing but the state
\* of its own behavior: it adds its own entry to the trace and nothing else,
\* leaves PYLON_POS, the speeds and the other behavior's state alone, and
\* what it returns is decided by the readings it took.
C17_CheckHasNoSideEffects ==
    [][(pc = "check" /\ pc' # "crashed") =>
         /\ Len(trace') = Len(trace) + 1
         /\ SubSeq(trace', 1, Len(trace)) = trace
         /\ trace'[Len(trace')].op = behaviors[idx] \o ".check"
         /\ UNCHANGED <<PYLON_POS, lspeed, rspeed, prevPylonPos>>
         /\ obs'.src = behaviors[idx]
         /\ behaviors[idx] = "Avoid" =>
              /\ wanderState' = wanderState
              /\ trace'[Len(trace')].arg[1] = 1 <=>
                   \/ \E i \in 1..Len(obs'.stalls) : obs'.stalls[i] = 1
                   \/ obs'.pxs <= 50 /\ (obs'.L > 2500 \/ obs'.C > 2500 \/ obs'.R > 2500)
         /\ behaviors[idx] = "Wander" =>
              /\ avoidState' = avoidState
              /\ trace'[Len(trace')].arg[1] = 1 <=>
                   ((obs'.L + obs'.C + obs'.R) \div 3 < 1500 \/ obs'.pxs > 150)
    ]_vars

\* Wander.check has returned true on a confident blob in a tick that began
\* with the estimate and the speeds away from their initial values
C17_Witness ==
    /\ pc = "run"
    /\ obs.src = "Wander"
    /\ obs.pxs = 151
    /\ Ops(trace) = <<"Avoid.check", "Wander.check">>
    /\ PYLON_POS = 2
    /\ lspeed = 7

\* C18: PYLON_POS changes only in a setPylonPos of Wander.run and the speeds
\* only at the start of Wander.run; the timer, the checks and Avoid.run leave
\* all three as they were, so they carry over from tick to tick and are
\* never reset.
C18_OwnedByWander ==
    [][ /\ PYLON_POS' # PYLON_POS =>
             /\ pc \in {"setPylon1", "setPylon2"}
             /\ Has("Wander.run")
        /\ (lspeed' # lspeed \/ rspeed' # rspeed) =>
             /\ pc = "run" /\ behaviors[idx] = "Wander"
             /\ trace'[Len(trace')].op = "Wander.run"
        /\ (pc \in {"start", "timer", "check"} \/ (pc = "run" /\ behaviors[idx] = "Avoid")) =>
             UNCHANGED <<PYLON_POS, lspeed, rspeed>>
    ]_vars

\* a tick in which Avoid ran has ended with the estimate and the speeds as
\* earlier Wander ticks left them
C18_Witness ==
    /\ pc = "timer"
    /\ Has("Avoid.run")
    /\ PYLON_POS = 0 - 3
    /\ lspeed = 8 /\ rspeed = 10

\* C19: every motors command of Wander.run is the straight one, (lspeed,
\* rspeed) with both speeds positive and within [0.1, 1.0]; at the comparison
\* the estimate is within one unit of the captured value, so neither
\* steering branch is taken.
C19_AlwaysStraight ==
    /\ \A i \in 1..Len(trace) :
         trace[i].op = "motors" =>
           /\ trace[i].arg = <<lspeed, rspeed>>
           /\ trace[i].arg[1] \in 1..10
           /\ trace[i].arg[2] \in 1..10
    /\ pc \in {"motors", "setPylon2"} =>
         /\ PYLON_POS - prevPylonPos[1] \in {0 - 1, 0, 1}
         /\ ~(PYLON_POS < prevPylonPos[1] - 2)
         /\ ~(PYLON_POS > prevPylonPos[1] + 2)

\* the straight command was issued at the lowest speeds, the estimate having
\* just moved one unit right, from 2 to 3
C19_Witness ==
    /\ pc = "setPylon2"
    /\ trace[Len(trace)] = Ev("motors", <<1, 1>>)
    /\ PYLON_POS = prevPylonPos[1] + 1
    /\ PYLON_POS = 3

\* the number of tones in the trace t
Tones(t) == Count(t, "beep")

\* C20: a setPylonPos emits a tone exactly when it changes PYLON_POS, one tone
\* for one unit; no other step emits a tone or changes it; a confident blob
\* in the middle column, 213, changes nothing and emits no tone; one
\* Wander.run emits at most 2 tones.
C20_TonesTrackChanges ==
    /\ [][ IF pc \in {"setPylon1", "setPylon2"} /\ pc' # "crashed"
           THEN /\ Tones(trace') - Tones(trace) = Abs(PYLON_POS' - PYLON_POS)
                /\ Tones(trace') - Tones(trace) \in {0, 1}
                /\ (obs'.pxs > 150 /\ obs'.avg_x = 213) =>
                     /\ PYLON_POS' = PYLON_POS
                     /\ Tones(trace') = Tones(trace)
           ELSE /\ PYLON_POS' = PYLON_POS
                /\ Tones(trace') <= Tones(trace) ]_vars
    /\ [](Tones(trace) <= 2)
    /\ [](pc \in {"motors", "setPylon2"} =>
            Abs(PYLON_POS - prevPylonPos[1]) = Tones(trace))

\* a Wander.run has ended whose first estimation step beeped and whose second
\* read a confident blob in the middle column
C20_Witness ==
    /\ pc = "timer"
    /\ Has("Wander.run")
    /\ obs.src = "setPylonPos"
    /\ obs.pxs = 151 /\ obs.avg_x = 213
    /\ Tones(trace) = 1

====
